---- MODULE Spec2Model ----
(***************************************************************************)
(* The player commands of ballsdex/packages/players/cog.py: the settings   *)
(* commands (privacy, donation policy), delete, the relationship commands  *)
(* (friends add / remove / list, block, unblock, blocked list) and export  *)
(* with its two CSV writers, over the Player, Friendship, Block,           *)
(* BallInstance, Trade and TradeObject tables.                             *)
(*                                                                         *)
(* A command handler is a coroutine: it runs from one `await` on the       *)
(* store to the next without interruption, and other handlers may run in   *)
(* between.  Every handler is therefore a record with a program position,  *)
(* and every command is a function from (store, handler, environment) to   *)
(* (store, handler) that executes one such segment.  Spec interleaves the  *)
(* segments of up to MaxHandlers relationship handlers.  The other         *)
(* specifications run each command to completion before the next one       *)
(* starts and record the command that returned in `last`: SeqSpec the      *)
(* relationship commands, SettingsSpec the settings commands, ConfirmSpec  *)
(* the commands that ask for a confirmation, ListSpec the list commands,   *)
(* ExportSpec and ArchiveSpec export over the balls and trades that the    *)
(* game records.  Spec leaves `last` alone.                                *)
(***************************************************************************)
EXTENDS Bags, FiniteSets, Integers, Sequences, TLC

VARIABLES
    player,          \* the Player table: discord id -> stored record
    friendships,     \* the Friendship table, rows in creation order
    blocks,          \* the Block table, rows in creation order
    ballinstances,   \* the BallInstance table
    trades,          \* the Trade table, rows in the order of their date
    tradeobjects,    \* the TradeObject table
    intents_members, \* self.bot.intents.members
    bots,            \* the discord users that are bot accounts (user.bot)
    handlers,        \* the command handlers in progress (a bag)
    last             \* history: the command that returned last, as the
                     \* one-at-a-time specifications record it

vars ==
    <<player, friendships, blocks, ballinstances, trades, tradeobjects,
      intents_members, bots, handlers, last>>

(***************************** bounds *************************************)

\* discord users 1..NumUsers
NumUsers == 3
\* command handlers that may be in progress at the same time
MaxHandlers == 2
\* rows of the BallInstance table and of the Trade table
MaxBalls == 2
MaxTrades == 1

Users == 1..NumUsers
Bots == bots
\* the users that invoke commands
Callers == Users \ Bots

(***************************** enumerations *******************************)

ALLOW == 1
DENY == 2
SAME_SERVER == 3
FRIENDS == 4
PrivacyPolicy == {ALLOW, DENY, SAME_SERVER, FRIENDS}

ALWAYS_ACCEPT == 1
REQUEST_APPROVAL == 2
ALWAYS_DENY == 3
FRIENDS_ONLY == 4
DonationPolicy == {ALWAYS_ACCEPT, REQUEST_APPROVAL, ALWAYS_DENY, FRIENDS_ONLY}

\* a value that decodes to no DonationPolicy member
UndecodablePolicy == FRIENDS_ONLY + 1

\* the choices of the privacy command: __init__ pops the last one when the
\* members intent is missing
PrivacyChoices(members) ==
    IF members THEN {ALLOW, DENY, SAME_SERVER, FRIENDS}
    ELSE {ALLOW, DENY, SAME_SERVER}

\* the values the donation policy command is invoked with
DonationInputs == DonationPolicy \cup {UndecodablePolicy}

(***************************** the store **********************************)

NoPlayer == [exists |-> FALSE, privacy_policy |-> 0, donation_policy |-> 0]

\* the record get_or_create inserts for an unknown discord id
DefaultPlayer ==
    [exists |-> TRUE, privacy_policy |-> DENY, donation_policy |-> ALWAYS_ACCEPT]

Row(p1, p2) == [player1 |-> p1, player2 |-> p2]

\* (Q(player1=a) & Q(player2=b)) | (Q(player1=b) & Q(player2=a))
Matches(r, a, b) ==
    \/ r.player1 = a /\ r.player2 = b
    \/ r.player1 = b /\ r.player2 = a

FilterPair(table, a, b) == SelectSeq(table, LAMBDA r : Matches(r, a, b))

\* <table>.filter(<both orientations>).delete()
DeletePair(table, a, b) == SelectSeq(table, LAMBDA r : ~Matches(r, a, b))

\* <table>.create(player1=a, player2=b)
Create(table, a, b) == Append(table, Row(a, b))

\* Player.is_friend / Player.is_blocked: a row exists in either orientation
is_friend(db, a, b) == Len(FilterPair(db.F, a, b)) > 0
is_blocked(db, a, b) == Len(FilterPair(db.B, a, b)) > 0

\* PlayerModel.get_or_create(discord_id=id)
get_or_create(db, id) ==
    IF db.P[id].exists THEN db ELSE [db EXCEPT !.P[id] = DefaultPlayer]

\* player.save(): writes every field of the in-memory object
save(db, id, obj) == [db EXCEPT !.P[id] = [obj EXCEPT !.exists = TRUE]]

\* player.delete(): the row of the player goes, and with it the rows that
\* refer to the player
DeletePlayer(db, id) ==
    [db EXCEPT !.P[id] = NoPlayer,
               !.F = SelectSeq(db.F, LAMBDA r : id \notin {r.player1, r.player2}),
               !.B = SelectSeq(db.B, LAMBDA r : id \notin {r.player1, r.player2}),
               !.I = SelectSeq(db.I, LAMBDA r : r.player # id),
               !.T = SelectSeq(db.T, LAMBDA r : id \notin {r.player1, r.player2}),
               !.O = SelectSeq(db.O, LAMBDA r :
                         /\ r.player # id
                         /\ \A i \in DOMAIN db.I :
                                db.I[i].id = r.ballinstance =>
                                    db.I[i].player # id
                         /\ \A i \in DOMAIN db.T :
                                db.T[i].id = r.trade =>
                                    id \notin {db.T[i].player1,
                                               db.T[i].player2})]

DB ==
    [P |-> player, F |-> friendships, B |-> blocks, I |-> ballinstances,
     T |-> trades, O |-> tradeobjects]

(***************************** handlers ***********************************)

Idle ==
    [cmd |-> "idle", caller |-> 0, target |-> 0, policy |-> 0, pc |-> "done",
     obj |-> NoPlayer, view |-> "unset", entries |-> <<>>, type |-> "none",
     files |-> <<>>, zip_file |-> [size |-> 0, pos |-> 0], reply |-> "none",
     sent |-> FALSE, raised |-> FALSE]

\* a handler as the dispatcher invokes it
Invocation(cmd, caller, target, policy) ==
    [Idle EXCEPT !.cmd = cmd, !.caller = caller, !.target = target,
                 !.policy = policy, !.pc = "get_or_create"]

\* what the environment decides while a handler runs: the button pressed in
\* a confirmation view (None: timed out), whether the message of line 165
\* can be built, and whether the bot has the members intent
Envs ==
    [view : {"True", "False", "None"}, mention : BOOLEAN,
     members : {intents_members}]

\* the segments that wait for the confirmation view / build the message
AsksView(h) ==
    \/ h.cmd = "block" /\ h.pc \in {"get_or_create", "confirm"}
    \/ h.cmd = "delete" /\ h.pc = "confirm"
BuildsMention(h) ==
    h.cmd = "friend_add" /\ h.pc \in {"get_or_create", "is_blocked"}

\* the rows of `table` that have player p on either side, in the order of
\* their creation:  Q(player1=player) | Q(player2=player)
Listed(table, p) ==
    SelectSeq(table, LAMBDA r : r.player1 = p \/ r.player2 = p)

\* the orders in which a query without order_by may return n rows
Orders(n) == {f \in [1..n -> 1..n] : \A i, j \in 1..n : f[i] = f[j] => i = j}

ListCommands == {"friend_list", "blocked_list"}

\* what the environment decides while a list command runs: the order in
\* which the store returns the rows of the query
ListEnvs(h) ==
    [view : {"None"}, mention : {TRUE}, members : {intents_members},
     order : Orders(Len(Listed(IF h.cmd = "friend_list" THEN friendships
                               ELSE blocks, h.caller)))]

\* what the environment decides while export runs: whether the user
\* accepts direct messages (discord.Forbidden otherwise)
ExportEnvs ==
    [view : {"None"}, mention : {TRUE}, members : {intents_members},
     dm : BOOLEAN]

\* the environments that make a difference to handler h
EnvsFor(h) ==
    IF h.cmd \in ListCommands THEN ListEnvs(h)
    ELSE IF h.cmd = "export" THEN ExportEnvs
    ELSE {e \in Envs : /\ AsksView(h) \/ e.view = "None"
                       /\ BuildsMention(h) \/ e.mention}

Ret(db, h) == [db |-> db, h |-> h]

\* the handler goes on to send `msg`
Reply(h, msg) == [h EXCEPT !.reply = msg, !.pc = "reply"]

\* an exception leaves the handler
Raise(h) == [h EXCEPT !.raised = TRUE, !.pc = "done"]

\* app_commands.Choice.__eq__ against an enum member: a Choice equals only
\* another Choice
ChoiceEq(policy, member) == FALSE

(***************************** privacy ************************************)

\* lines 56-62
privacy_get_or_create(db, h, env) ==
    LET d == get_or_create(db, h.caller)
    IN  IF h.policy \notin DonationPolicy
        THEN Ret(d, Raise(h))
        ELSE LET o == [d.P[h.caller] EXCEPT !.donation_policy = h.policy]
                 g == [h EXCEPT !.obj = o]
             IN  IF ChoiceEq(h.policy, SAME_SERVER) /\ ~env.members
                 THEN Ret(d, Reply(g, "need_members_intent"))
                 ELSE Ret(d, [g EXCEPT !.pc = "save"])

\* line 64
privacy_save(db, h, env) ==
    Ret(save(db, h.caller, h.obj), Reply(h, "privacy_set"))

\* lines 59-62, 65-67
privacy_reply(db, h, env) == Ret(db, [h EXCEPT !.sent = TRUE, !.pc = "done"])

privacy(db, h, env) ==
    CASE h.pc = "get_or_create" -> privacy_get_or_create(db, h, env)
      [] h.pc = "save" -> privacy_save(db, h, env)
      [] h.pc = "reply" -> privacy_reply(db, h, env)

(***************************** donation policy ****************************)

DonationMessage(v) ==
    CASE v = ALWAYS_ACCEPT -> "accept_all"
      [] v = REQUEST_APPROVAL -> "request_approval"
      [] v = ALWAYS_DENY -> "deny_all"
      [] v = FRIENDS_ONLY -> "friends_only"
      [] OTHER -> "invalid_input"

\* donation_policy_get_or_create storing the raw value and saving at once
donation_policy_get_or_create_eager(db, h, env) ==
    LET d == get_or_create(db, h.caller)
        o == [d.P[h.caller] EXCEPT !.donation_policy = h.policy]
    IN  Ret(save(d, h.caller, o),
            Reply([h EXCEPT !.obj = o], DonationMessage(h.policy)))

\* lines 91-92, and the choice of the message in 93-119
donation_policy_get_or_create(db, h, env) ==
    LET d == get_or_create(db, h.caller)
    IN  IF h.policy \notin DonationPolicy
        THEN Ret(d, Raise(h))
        ELSE Ret(d, Reply([h EXCEPT !.obj = [d.P[h.caller] EXCEPT
                                               !.donation_policy = h.policy]],
                          DonationMessage(h.policy)))

\* lines 93-120
donation_policy_reply(db, h, env) ==
    IF h.reply = "invalid_input"
    THEN Ret(db, [h EXCEPT !.sent = TRUE, !.pc = "done"])
    ELSE Ret(db, [h EXCEPT !.sent = TRUE, !.pc = "save"])

\* donation_policy_save with the save of line 121 lost
donation_policy_save_skipped(db, h, env) == Ret(db, [h EXCEPT !.pc = "done"])

\* line 121
donation_policy_save(db, h, env) ==
    Ret(save(db, h.caller, h.obj), [h EXCEPT !.pc = "done"])

donation_policy(db, h, env) ==
    CASE h.pc = "get_or_create" -> donation_policy_get_or_create(db, h, env)
      [] h.pc = "reply" -> donation_policy_reply(db, h, env)
      [] h.pc = "save" -> donation_policy_save(db, h, env)

(***************************** delete *************************************)

\* delete_confirm taking a view that timed out for a confirmation
delete_confirm_none_is_yes(db, h, env) ==
    IF env.view = "False"
    THEN Ret(db, [h EXCEPT !.view = env.view, !.pc = "done"])
    ELSE Ret(db, [h EXCEPT !.view = env.view, !.pc = "get_or_create"])

\* lines 128-134: the confirmation view, until a button is pressed or the
\* view times out
delete_confirm(db, h, env) ==
    IF env.view = "None" \/ env.view # "True"
    THEN Ret(db, [h EXCEPT !.view = env.view, !.pc = "done"])
    ELSE Ret(db, [h EXCEPT !.view = env.view, !.pc = "get_or_create"])

\* line 135
delete_get_or_create(db, h, env) ==
    Ret(get_or_create(db, h.caller), [h EXCEPT !.pc = "delete"])

\* line 136
delete_delete(db, h, env) ==
    Ret(DeletePlayer(db, h.caller), [h EXCEPT !.pc = "done"])

delete(db, h, env) ==
    CASE h.pc = "confirm" -> delete_confirm(db, h, env)
      [] h.pc = "get_or_create" -> delete_get_or_create(db, h, env)
      [] h.pc = "delete" -> delete_delete(db, h, env)

(***************************** friends add ********************************)

\* line 148 (and 191, 262, 314)
get_or_create1(db, h, env) ==
    Ret(get_or_create(db, h.caller), [h EXCEPT !.pc = "get_or_create2"])

\* lines 149-158
friend_add_get_or_create2(db, h, env) ==
    LET d == get_or_create(db, h.target)
    IN  IF h.caller = h.target THEN Ret(d, Reply(h, "cannot_add_yourself"))
        ELSE IF h.target \in Bots THEN Ret(d, Reply(h, "cannot_add_bot"))
        ELSE Ret(d, [h EXCEPT !.pc = "is_blocked"])

\* friend_add_is_blocked with the return of line 168 lost: the handler
\* goes on to the friendship test
friend_add_is_blocked_no_return(db, h, env) ==
    Ret(db, [h EXCEPT !.pc = "is_friend"])

\* lines 160-168; the expression inside the message of line 165
\* (`self.cog.add.extras.(...)`) is malformed: the reply is sent or the
\* handler ends on the error, and in both cases it returns here
friend_add_is_blocked(db, h, env) ==
    IF is_blocked(db, h.caller, h.target)
    THEN IF env.mention THEN Ret(db, Reply(h, "cannot_add_blocked"))
         ELSE Ret(db, Raise(h))
    ELSE Ret(db, [h EXCEPT !.pc = "is_friend"])

\* friend_add_is_friend with the test of line 171 lost: the row is created
\* whatever is_friend answered
friend_add_is_friend_ignored(db, h, env) ==
    Ret(db, [h EXCEPT !.pc = "create"])

\* lines 170-175
friend_add_is_friend(db, h, env) ==
    IF is_friend(db, h.caller, h.target)
    THEN Ret(db, Reply(h, "already_friends"))
    ELSE Ret(db, [h EXCEPT !.pc = "create"])

\* line 176
friend_add_create(db, h, env) ==
    Ret([db EXCEPT !.F = Create(db.F, h.caller, h.target)],
        Reply(h, "now_friends"))

\* the send_message / followup.send that ends a relationship command
send_reply(db, h, env) == Ret(db, [h EXCEPT !.sent = TRUE, !.pc = "done"])

friend_add(db, h, env) ==
    CASE h.pc = "get_or_create" -> get_or_create1(db, h, env)
      [] h.pc = "get_or_create2" -> friend_add_get_or_create2(db, h, env)
      [] h.pc = "is_blocked" -> friend_add_is_blocked(db, h, env)
      [] h.pc = "is_friend" -> friend_add_is_friend(db, h, env)
      [] h.pc = "create" -> friend_add_create(db, h, env)
      [] h.pc = "reply" -> send_reply(db, h, env)

(***************************** friends remove *****************************)

\* lines 192-199
friend_remove_get_or_create2(db, h, env) ==
    LET d == get_or_create(db, h.target)
    IN  IF h.caller = h.target THEN Ret(d, Reply(h, "cannot_remove_yourself"))
        ELSE IF h.target \in Bots THEN Ret(d, Reply(h, "cannot_remove_bot"))
        ELSE Ret(d, [h EXCEPT !.pc = "is_friend"])

\* lines 201-206
friend_remove_is_friend(db, h, env) ==
    IF ~is_friend(db, h.caller, h.target)
    THEN Ret(db, Reply(h, "not_friends"))
    ELSE Ret(db, [h EXCEPT !.pc = "delete"])

\* friend_remove_delete deleting the row in the caller's orientation only
friend_remove_delete_one_way(db, h, env) ==
    Ret([db EXCEPT !.F = SelectSeq(db.F, LAMBDA r :
                                     r # Row(h.caller, h.target))],
        Reply(h, "friend_removed"))

\* lines 208-211
friend_remove_delete(db, h, env) ==
    Ret([db EXCEPT !.F = DeletePair(db.F, h.caller, h.target)],
        Reply(h, "friend_removed"))

friend_remove(db, h, env) ==
    CASE h.pc = "get_or_create" -> get_or_create1(db, h, env)
      [] h.pc = "get_or_create2" -> friend_remove_get_or_create2(db, h, env)
      [] h.pc = "is_friend" -> friend_remove_is_friend(db, h, env)
      [] h.pc = "delete" -> friend_remove_delete(db, h, env)
      [] h.pc = "reply" -> send_reply(db, h, env)

(***************************** friends list / blocked list ****************)

\* lines 221, 345
list_get_or_create(db, h, env) ==
    Ret(get_or_create(db, h.caller), [h EXCEPT !.pc = "filter"])

\* lines 235-242, 359-366: one numbered entry per row, with the other party
Entries(rows, p) ==
    [i \in 1..Len(rows) |->
        [idx |-> i,
         other |-> IF rows[i].player1 = p THEN rows[i].player2
                   ELSE rows[i].player1]]

\* the rows as the store returns them for a query that names no order
Returns(rows, order) == [i \in 1..Len(rows) |-> rows[order[i]]]

\* lines 223-249
friend_list_filter(db, h, env) ==
    LET rows == Returns(Listed(db.F, h.caller), env.order)
    IN  IF rows = <<>> THEN Ret(db, Reply(h, "no_friends"))
        ELSE Ret(db, Reply([h EXCEPT !.entries = Entries(rows, h.caller)],
                           "friend_list"))

friend_list(db, h, env) ==
    CASE h.pc = "get_or_create" -> list_get_or_create(db, h, env)
      [] h.pc = "filter" -> friend_list_filter(db, h, env)
      [] h.pc = "reply" -> send_reply(db, h, env)

\* lines 347-373
blocked_list_filter(db, h, env) ==
    LET rows == Returns(Listed(db.B, h.caller), env.order)
    IN  IF rows = <<>> THEN Ret(db, Reply(h, "no_blocked"))
        ELSE Ret(db, Reply([h EXCEPT !.entries = Entries(rows, h.caller)],
                           "blocked_list"))

blocked_list(db, h, env) ==
    CASE h.pc = "get_or_create" -> list_get_or_create(db, h, env)
      [] h.pc = "filter" -> blocked_list_filter(db, h, env)
      [] h.pc = "reply" -> send_reply(db, h, env)

(***************************** block **************************************)

\* block_get_or_create2 without the test of lines 267-269
block_get_or_create2_no_self_test(db, h, env) ==
    LET d == get_or_create(db, h.target)
    IN  IF h.target \in Bots THEN Ret(d, Reply(h, "cannot_block_bot"))
        ELSE Ret(d, [h EXCEPT !.pc = "is_blocked"])

\* lines 263-272
block_get_or_create2(db, h, env) ==
    LET d == get_or_create(db, h.target)
    IN  IF h.caller = h.target THEN Ret(d, Reply(h, "cannot_block_yourself"))
        ELSE IF h.target \in Bots THEN Ret(d, Reply(h, "cannot_block_bot"))
        ELSE Ret(d, [h EXCEPT !.pc = "is_blocked"])

\* lines 274-279
block_is_blocked(db, h, env) ==
    IF is_blocked(db, h.caller, h.target)
    THEN Ret(db, Reply(h, "already_blocked"))
    ELSE Ret(db, [h EXCEPT !.pc = "is_friend"])

\* lines 281-282
block_is_friend(db, h, env) ==
    IF is_friend(db, h.caller, h.target)
    THEN Ret(db, [h EXCEPT !.pc = "confirm"])
    ELSE Ret(db, [h EXCEPT !.pc = "create"])

\* lines 283-292: the confirmation view, until a button is pressed or the
\* view times out
block_confirm(db, h, env) ==
    IF env.view # "True"
    THEN Ret(db, [h EXCEPT !.view = env.view, !.pc = "done"])
    ELSE Ret(db, [h EXCEPT !.view = env.view, !.pc = "delete"])

\* block_delete deleting the row in the caller's orientation only
block_delete_one_way(db, h, env) ==
    Ret([db EXCEPT !.F = SelectSeq(db.F, LAMBDA r :
                                     r # Row(h.caller, h.target))],
        [h EXCEPT !.pc = "create"])

\* lines 294-297
block_delete(db, h, env) ==
    Ret([db EXCEPT !.F = DeletePair(db.F, h.caller, h.target)],
        [h EXCEPT !.pc = "create"])

\* line 299
block_create(db, h, env) ==
    Ret([db EXCEPT !.B = Create(db.B, h.caller, h.target)],
        Reply(h, "now_blocked"))

block(db, h, env) ==
    CASE h.pc = "get_or_create" -> get_or_create1(db, h, env)
      [] h.pc = "get_or_create2" -> block_get_or_create2(db, h, env)
      [] h.pc = "is_blocked" -> block_is_blocked(db, h, env)
      [] h.pc = "is_friend" -> block_is_friend(db, h, env)
      [] h.pc = "confirm" -> block_confirm(db, h, env)
      [] h.pc = "delete" -> block_delete(db, h, env)
      [] h.pc = "create" -> block_create(db, h, env)
      [] h.pc = "reply" -> send_reply(db, h, env)

(***************************** unblock ************************************)

\* lines 315-324
unblock_get_or_create2(db, h, env) ==
    LET d == get_or_create(db, h.target)
    IN  IF h.caller = h.target THEN Ret(d, Reply(h, "cannot_unblock_yourself"))
        ELSE IF h.target \in Bots THEN Ret(d, Reply(h, "cannot_unblock_bot"))
        ELSE Ret(d, [h EXCEPT !.pc = "is_blocked"])

\* lines 326-330
unblock_is_blocked(db, h, env) ==
    IF ~is_blocked(db, h.caller, h.target)
    THEN Ret(db, Reply(h, "not_blocked"))
    ELSE Ret(db, [h EXCEPT !.pc = "delete"])

\* lines 332-335
unblock_delete(db, h, env) ==
    Ret([db EXCEPT !.B = DeletePair(db.B, h.caller, h.target)],
        Reply(h, "unblocked"))

unblock(db, h, env) ==
    CASE h.pc = "get_or_create" -> get_or_create1(db, h, env)
      [] h.pc = "get_or_create2" -> unblock_get_or_create2(db, h, env)
      [] h.pc = "is_blocked" -> unblock_is_blocked(db, h, env)
      [] h.pc = "delete" -> unblock_delete(db, h, env)
      [] h.pc = "reply" -> send_reply(db, h, env)

(***************************** export *************************************)

\* line 423
SizeLimit == 25000000

\* the bytes of a header line and of a trade row; the row of a ball is as
\* long as the names and numbers it renders
LineBytes == 64

\* lines 451-454
ItemsHeader == [kind |-> "header", id |-> 0, bytes |-> LineBytes]

\* lines 456-460
ItemsRow(ball) == [kind |-> "row", id |-> ball.id, bytes |-> ball.bytes]

\* get_items_csv with the filter of line 448 lost: a row for every ball
get_items_csv_unfiltered(db, p) ==
    <<ItemsHeader>> \o [i \in 1..Len(db.I) |-> ItemsRow(db.I[i])]

\* lines 444-461: the text, line by line
get_items_csv(db, p) ==
    LET balls == SelectSeq(db.I, LAMBDA b : b.player = p)
    IN  <<ItemsHeader>> \o [i \in 1..Len(balls) |-> ItemsRow(balls[i])]

\* ballinstance.to_string() of every item
Rendered(items) == [i \in 1..Len(items) |-> items[i].ballinstance]

\* the "," between two joined strings
Comma == 0

\* ','.join(strings)
RECURSIVE Join(_)
Join(strings) ==
    IF Len(strings) <= 1 THEN strings
    ELSE <<Head(strings), Comma>> \o Join(Tail(strings))

\* TradeObject.filter(trade=trade, player=p)
TradeItems(db, trade, p) ==
    SelectSeq(db.O, LAMBDA o : o.trade = trade.id /\ o.player = p)

\* line 473
TradesHeader ==
    [kind |-> "header", id |-> 0, player1 |-> 0, player2 |-> 0,
     player1_received |-> <<>>, player2_received |-> <<>>, bytes |-> LineBytes]

\* TradesRow with each column filled from the items of its own player
TradesRow_straight(db, trade) ==
    [kind |-> "row", id |-> trade.id,
     player1 |-> trade.player1, player2 |-> trade.player2,
     player1_received |-> Join(Rendered(TradeItems(db, trade, trade.player1))),
     player2_received |-> Join(Rendered(TradeItems(db, trade, trade.player2))),
     bytes |-> LineBytes]

\* lines 475-485
TradesRow(db, trade) ==
    LET player1_items == TradeItems(db, trade, trade.player1)
        player2_items == TradeItems(db, trade, trade.player2)
    IN  [kind |-> "row", id |-> trade.id,
         player1 |-> trade.player1, player2 |-> trade.player2,
         player1_received |-> Join(Rendered(player2_items)),
         player2_received |-> Join(Rendered(player1_items)),
         bytes |-> LineBytes]

\* lines 468-472: Trade.filter(Q(player1=player) | Q(player2=player))
\* .order_by("date")
trade_history(db, p) == Listed(db.T, p)

\* lines 464-486: the text, line by line
get_trades_csv(db, p) ==
    LET th == trade_history(db, p)
    IN  <<TradesHeader>> \o [i \in 1..Len(th) |-> TradesRow(db, th[i])]

\* len(txt.encode("utf-8"))
RECURSIVE Bytes(_)
Bytes(txt) == IF txt = <<>> THEN 0 ELSE Head(txt).bytes + Bytes(Tail(txt))

\* the bytes zipfile adds for one entry (local header and central directory
\* record) and for the end of the archive
ZipEntryBytes == 30 + 46
ZipEndBytes == 22

\* lines 418-421: the bytes of the archive of `files`, each stored as it is
RECURSIVE ZipBytes(_)
ZipBytes(files) ==
    IF files = <<>> THEN ZipEndBytes
    ELSE Bytes(Head(files).txt) + ZipEntryBytes + ZipBytes(Tail(files))

\* BytesIO: a buffer and the position in it
written(n) == [size |-> n, pos |-> n]
seek(f, n) == [f EXCEPT !.pos = n]
tell(f) == f.pos

\* export_get_or_none with get_or_create in the place of get_or_none
export_get_or_none_creating(db, h, env) ==
    Ret(get_or_create(db, h.caller), [h EXCEPT !.pc = "csv"])

\* lines 388-393
export_get_or_none(db, h, env) ==
    IF ~db.P[h.caller].exists THEN Ret(db, Reply(h, "no_data"))
    ELSE Ret(db, [h EXCEPT !.obj = db.P[h.caller], !.pc = "csv"])

\* lines 394-417
export_csv(db, h, env) ==
    LET balls == [filename |-> "balls", txt |-> get_items_csv(db, h.caller)]
        trs == [filename |-> "trades", txt |-> get_trades_csv(db, h.caller)]
    IN  CASE h.type = "balls" ->
               Ret(db, [h EXCEPT !.files = <<balls>>, !.pc = "zip"])
          [] h.type = "trades" ->
               Ret(db, [h EXCEPT !.files = <<trs>>, !.pc = "zip"])
          [] h.type = "all" ->
               Ret(db, [h EXCEPT !.files = <<balls, trs>>, !.pc = "zip"])
          [] OTHER -> Ret(db, Reply(h, "invalid_input"))

\* lines 418-429
export_zip(db, h, env) ==
    LET zip_file == seek(written(ZipBytes(h.files)), 0)
        g == [h EXCEPT !.zip_file = zip_file]
    IN  IF tell(zip_file) > SizeLimit THEN Ret(db, Reply(g, "too_large"))
        ELSE Ret(db, [g EXCEPT !.pc = "send"])

\* lines 430-441
export_send(db, h, env) ==
    IF env.dm THEN Ret(db, Reply(h, "sent_via_dms"))
    ELSE Ret(db, Reply(h, "dm_forbidden"))

export(db, h, env) ==
    CASE h.pc = "get_or_none" -> export_get_or_none(db, h, env)
      [] h.pc = "csv" -> export_csv(db, h, env)
      [] h.pc = "zip" -> export_zip(db, h, env)
      [] h.pc = "send" -> export_send(db, h, env)
      [] h.pc = "reply" -> send_reply(db, h, env)

(***************************** dispatch ***********************************)

Step(db, h, env) ==
    CASE h.cmd = "friend_add" -> friend_add(db, h, env)
      [] h.cmd = "block" -> block(db, h, env)
      [] h.cmd = "friend_remove" -> friend_remove(db, h, env)
      [] h.cmd = "unblock" -> unblock(db, h, env)
      [] h.cmd = "privacy" -> privacy(db, h, env)
      [] h.cmd = "donation_policy" -> donation_policy(db, h, env)
      [] h.cmd = "delete" -> delete(db, h, env)
      [] h.cmd = "friend_list" -> friend_list(db, h, env)
      [] h.cmd = "blocked_list" -> blocked_list(db, h, env)
      [] h.cmd = "export" -> export(db, h, env)

RECURSIVE RunFrom(_, _)
RunFrom(s, env) ==
    IF s.h.pc = "done" THEN s ELSE RunFrom(Step(s.db, s.h, env), env)

\* the handler run to completion without another handler in between
Run(db, h, env) == RunFrom(Ret(db, h), env)

(***************************** specifications *****************************)

\* what `last` keeps of a handler that has returned
Returned(h) ==
    [cmd |-> h.cmd, caller |-> h.caller, target |-> h.target,
     policy |-> h.policy, view |-> h.view, entries |-> h.entries,
     type |-> h.type, files |-> h.files, zip_file |-> h.zip_file,
     reply |-> h.reply, sent |-> h.sent, raised |-> h.raised]

\* the cog constructed over an empty store
Constructed ==
    /\ player = [u \in Users |-> NoPlayer]
    /\ friendships = <<>>
    /\ blocks = <<>>
    /\ ballinstances = <<>>
    /\ trades = <<>>
    /\ tradeobjects = <<>>
    /\ intents_members \in BOOLEAN
    /\ handlers = EmptyBag
    /\ last = Returned(Idle)

\* the last user is a bot account
Init == Constructed /\ bots = {NumUsers}

\* Init for the specifications of the commands that do not read the
\* intents: the bot has the members intent
MembersInit == Init /\ intents_members = TRUE

One(h) == SetToBag({h})

RelationCommands == {"friend_add", "friend_remove", "block", "unblock"}

\* the dispatcher starts a handler for an incoming interaction
Invoke ==
    \E cmd \in RelationCommands, c \in Callers, t \in Users :
        /\ BagCardinality(handlers) < MaxHandlers
        /\ handlers' = handlers (+) One(Invocation(cmd, c, t, 0))
        /\ UNCHANGED <<player, friendships, blocks, ballinstances, trades,
                       tradeobjects, intents_members, bots, last>>

\* handler h runs up to its next await; a handler that has returned is gone
Resume(h, env) ==
    /\ BagIn(h, handlers)
    /\ \E r \in {Step(DB, h, env)} :
           /\ player' = r.db.P
           /\ friendships' = r.db.F
           /\ blocks' = r.db.B
           /\ ballinstances' = r.db.I
           /\ trades' = r.db.T
           /\ tradeobjects' = r.db.O
           /\ handlers' = IF r.h.pc = "done"
                          THEN handlers (-) One(h)
                          ELSE (handlers (-) One(h)) (+) One(r.h)
    /\ UNCHANGED <<intents_members, bots, last>>

FriendAdd ==
    \E h \in BagToSet(handlers) : \E env \in EnvsFor(h) :
        h.cmd = "friend_add" /\ Resume(h, env)

FriendRemove ==
    \E h \in BagToSet(handlers) : \E env \in EnvsFor(h) :
        h.cmd = "friend_remove" /\ Resume(h, env)

BlockCmd ==
    \E h \in BagToSet(handlers) : \E env \in EnvsFor(h) :
        h.cmd = "block" /\ Resume(h, env)

Unblock ==
    \E h \in BagToSet(handlers) : \E env \in EnvsFor(h) :
        h.cmd = "unblock" /\ Resume(h, env)

Next ==
    \/ Invoke
    \/ FriendAdd
    \/ FriendRemove
    \/ BlockCmd
    \/ Unblock

\* the relationship commands, their handlers interleaved at every await
Spec == Init /\ [][Next]_vars

\* the command of handler h from invocation to return, nothing in between
Complete(h) ==
    /\ handlers = EmptyBag
    /\ \E r \in {Run(DB, h, env) : env \in EnvsFor(h)} :
        /\ player' = r.db.P
        /\ friendships' = r.db.F
        /\ blocks' = r.db.B
        /\ ballinstances' = r.db.I
        /\ trades' = r.db.T
        /\ tradeobjects' = r.db.O
        /\ last' = Returned(r.h)
    /\ UNCHANGED <<intents_members, bots, handlers>>

SeqFriendAdd ==
    \E c \in Callers, t \in Users : Complete(Invocation("friend_add", c, t, 0))

SeqFriendRemove ==
    \E c \in Callers, t \in Users :
        Complete(Invocation("friend_remove", c, t, 0))

SeqBlock ==
    \E c \in Callers, t \in Users : Complete(Invocation("block", c, t, 0))

SeqUnblock ==
    \E c \in Callers, t \in Users : Complete(Invocation("unblock", c, t, 0))

SeqNext ==
    \/ SeqFriendAdd
    \/ SeqFriendRemove
    \/ SeqBlock
    \/ SeqUnblock

\* the relationship commands, one at a time
SeqSpec == MembersInit /\ [][SeqNext]_vars

SeqPrivacy ==
    \E c \in Callers, p \in PrivacyChoices(intents_members) :
        Complete(Invocation("privacy", c, c, p))

SeqDonationPolicy ==
    \E c \in Callers, p \in DonationInputs :
        Complete(Invocation("donation_policy", c, c, p))

SettingsNext ==
    \/ SeqPrivacy
    \/ SeqDonationPolicy

\* the settings commands, one at a time
SettingsSpec == Init /\ [][SettingsNext]_vars

\* the dispatcher starts the handler of a settings command
InvokePrivacy ==
    \E c \in Callers, p \in PrivacyChoices(intents_members) :
        /\ BagCardinality(handlers) < MaxHandlers
        /\ handlers' = handlers (+) One(Invocation("privacy", c, c, p))
        /\ UNCHANGED <<player, friendships, blocks, ballinstances, trades,
                       tradeobjects, intents_members, bots, last>>

InvokeDonationPolicy ==
    \E c \in Callers, p \in DonationInputs :
        /\ BagCardinality(handlers) < MaxHandlers
        /\ handlers' = handlers (+) One(Invocation("donation_policy", c, c, p))
        /\ UNCHANGED <<player, friendships, blocks, ballinstances, trades,
                       tradeobjects, intents_members, bots, last>>

Privacy ==
    \E h \in BagToSet(handlers) : \E env \in EnvsFor(h) :
        h.cmd = "privacy" /\ Resume(h, env)

DonationPolicyCmd ==
    \E h \in BagToSet(handlers) : \E env \in EnvsFor(h) :
        h.cmd = "donation_policy" /\ Resume(h, env)

SettingsStepNext ==
    \/ InvokePrivacy
    \/ InvokeDonationPolicy
    \/ Privacy
    \/ DonationPolicyCmd

\* the settings commands, their handlers interleaved at every await
SettingsStepSpec == Init /\ [][SettingsStepNext]_vars

\* the delete command starts with its confirmation view
SeqDelete ==
    \E c \in Callers :
        Complete([Invocation("delete", c, c, 0) EXCEPT !.pc = "confirm"])

ConfirmNext ==
    \/ SeqFriendAdd
    \/ SeqBlock
    \/ SeqDelete

\* the two commands that ask for a confirmation, and friends add, one at a
\* time
ConfirmSpec == MembersInit /\ [][ConfirmNext]_vars

SeqFriendList ==
    \E c \in Callers : Complete(Invocation("friend_list", c, c, 0))

SeqBlockedList ==
    \E c \in Callers : Complete(Invocation("blocked_list", c, c, 0))

ListNext ==
    \/ SeqFriendAdd
    \/ SeqBlock
    \/ SeqFriendList
    \/ SeqBlockedList

\* the two list commands and the commands that create the rows they list,
\* one at a time, in a guild without bot accounts
ListInit == Constructed /\ bots = {} /\ intents_members = TRUE

ListSpec == ListInit /\ [][ListNext]_vars

\* the game gives player p a new ball, whose row is n bytes long; no
\* command has returned over the store as it is now
Caught(p, n) ==
    /\ handlers = EmptyBag
    /\ Len(ballinstances) < MaxBalls
    /\ player' = get_or_create(DB, p).P
    /\ ballinstances' =
           Append(ballinstances,
                  [id |-> Len(ballinstances) + 1, player |-> p, bytes |-> n])
    /\ last' = Returned(Idle)
    /\ UNCHANGED <<friendships, blocks, trades, tradeobjects, intents_members,
                   bots, handlers>>

\* players p1 and p2 conclude a trade of the balls `given`: each becomes a
\* line item of the trade, attributed to the party that receives it
Traded(p1, p2, given) ==
    LET id == Len(trades) + 1
        receiver(b) == IF ballinstances[b].player = p1 THEN p2 ELSE p1
    IN  /\ handlers = EmptyBag
        /\ Len(trades) < MaxTrades
        /\ p1 # p2
        /\ player[p1].exists /\ player[p2].exists
        /\ \A b \in given : ballinstances[b].player \in {p1, p2}
        /\ trades' = Append(trades, [id |-> id, player1 |-> p1, player2 |-> p2])
        /\ tradeobjects' = tradeobjects \o
               [i \in 1..Cardinality(given) |->
                   LET b == CHOOSE x \in given :
                                Cardinality({y \in given : y < x}) = i - 1
                   IN  [trade |-> id, player |-> receiver(b),
                        ballinstance |-> b]]
        /\ ballinstances' =
               [b \in DOMAIN ballinstances |->
                   IF b \in given
                   THEN [ballinstances[b] EXCEPT !.player = receiver(b)]
                   ELSE ballinstances[b]]
        /\ last' = Returned(Idle)
        /\ UNCHANGED <<player, friendships, blocks, intents_members, bots,
                       handlers>>

\* a ball with a row of ordinary length
Catch == \E p \in Callers : Caught(p, LineBytes)

\* a ball whose row alone fills the archive up to the limit
CatchLong == \E p \in Callers : Caught(p, SizeLimit)

\* a trade, proposed by the party with the smaller id
Trade ==
    \E p1 \in Callers : \E p2 \in {p \in Callers : p > p1} :
        \E given \in SUBSET DOMAIN ballinstances : Traded(p1, p2, given)

ExportTypes == {"balls", "trades", "all", "other"}

\* export starts with get_or_none
EX(c, type) ==
    [Invocation("export", c, c, 0) EXCEPT !.type = type, !.pc = "get_or_none"]

SeqExport == \E c \in Callers, type \in ExportTypes : Complete(EX(c, type))

ExportNext ==
    \/ Catch
    \/ Trade
    \/ SeqExport

\* export, one at a time, over the balls and trades the game records
ExportSpec == MembersInit /\ [][ExportNext]_vars

ArchiveNext ==
    \/ Catch
    \/ CatchLong
    \/ SeqExport

\* export, one at a time, over balls with rows of either length
ArchiveSpec == MembersInit /\ [][ArchiveNext]_vars

(***************************** claims *************************************)

RowsFor(table, a, b) == Len(FilterPair(table, a, b))

FA(a, b) == Invocation("friend_add", a, b, 0)
FR(a, b) == Invocation("friend_remove", a, b, 0)
BL(a, b) == Invocation("block", a, b, 0)
UB(a, b) == Invocation("unblock", a, b, 0)
PR(c, v) == Invocation("privacy", c, c, v)
DP(c, v) == Invocation("donation_policy", c, c, v)
DEL(c) == [Invocation("delete", c, c, 0) EXCEPT !.pc = "confirm"]

\* the record of player c as a command finds it after get_or_create
Stored(P, c) == IF P[c].exists THEN P[c] ELSE DefaultPlayer

\* C1: for distinct non-bot players a and b, whenever friend_add(a,b)
\* succeeds, a friend_add by either of them on the other that runs next is
\* answered "already friends", leaves the Friendship table as it is, and the
\* table holds exactly one row for the pair {a,b}.
C1_SecondAddRejected ==
    \A a \in Callers : \A b \in Callers \ {a} : \A e \in EnvsFor(FA(a, b)) :
        LET r1 == Run(DB, FA(a, b), e)
        IN  r1.h.reply = "now_friends" =>
              \A c \in {a, b} : \A t \in {a, b} \ {c} :
                  LET r2 == Run(r1.db, FA(c, t), e)
                  IN  /\ r2.h.reply = "already_friends"
                      /\ r2.h.sent
                      /\ r2.db.F = r1.db.F
                      /\ r2.db.B = r1.db.B
                      /\ RowsFor(r2.db.F, a, b) = 1

\* a friend_add by the other party has just been answered "already friends"
C1_Witness ==
    /\ last.cmd = "friend_add"
    /\ last.reply = "already_friends"
    /\ last.sent
    /\ FilterPair(friendships, last.caller, last.target)
         = <<Row(last.target, last.caller)>>

\* C2: when a Friendship exists for {a,b} in either orientation and no Block
\* does, block(a,b) with the confirmation granted ends with no Friendship
\* row and exactly one Block row for {a,b}.
C2_BlockReplacesFriendship ==
    \A a \in Callers : \A b \in Users : \A e \in EnvsFor(BL(a, b)) :
        (is_friend(DB, a, b) /\ ~is_blocked(DB, a, b) /\ e.view = "True") =>
            LET r == Run(DB, BL(a, b), e)
            IN  /\ RowsFor(r.db.F, a, b) = 0
                /\ RowsFor(r.db.B, a, b) = 1

\* a block of a friend has just been confirmed and carried out
C2_Witness ==
    /\ last.cmd = "block"
    /\ last.view = "True"
    /\ last.reply = "now_blocked"
    /\ RowsFor(friendships, last.caller, last.target) = 0
    /\ RowsFor(blocks, last.caller, last.target) = 1

\* C3: friend_add(a,b) while a Block row exists for {a,b}, whoever created
\* it, is rejected and leaves the Friendship and the Block table unchanged.
C3_AddWhileBlocked ==
    \A a \in Callers : \A b \in Users : \A e \in EnvsFor(FA(a, b)) :
        is_blocked(DB, a, b) =>
            LET r == Run(DB, FA(a, b), e)
            IN  /\ r.db.F = friendships
                /\ r.db.B = blocks
                /\ r.h.reply = "cannot_add_blocked" \/ r.h.raised

\* a friend_add has just been rejected because the target blocked the caller
C3_Witness ==
    /\ last.cmd = "friend_add"
    /\ last.reply = "cannot_add_blocked"
    /\ \E i \in DOMAIN blocks : blocks[i] = Row(last.target, last.caller)
    /\ RowsFor(friendships, last.caller, last.target) = 0

\* C4: no Friendship row and no Block row has the same player on both
\* sides, and a relationship command a player aims at themself leaves both
\* tables unchanged.
C4_NoSelfRows ==
    /\ \A i \in DOMAIN friendships :
           friendships[i].player1 # friendships[i].player2
    /\ \A i \in DOMAIN blocks : blocks[i].player1 # blocks[i].player2
    /\ \A cmd \in RelationCommands : \A a \in Callers :
           \A e \in EnvsFor(Invocation(cmd, a, a, 0)) :
               LET r == Run(DB, Invocation(cmd, a, a, 0), e)
               IN  r.db.F = friendships /\ r.db.B = blocks

\* a player has just tried to block themself while relationship rows exist
C4_Witness ==
    /\ last.cmd = "block"
    /\ last.caller = last.target
    /\ last.reply = "cannot_block_yourself"
    /\ Len(friendships) + Len(blocks) > 0

\* C5: whenever no handler is in progress, no pair of players has both a
\* Friendship row and a Block row.
C5_Claim ==
    handlers = EmptyBag =>
        \A a \in Users : \A b \in Users :
            ~(is_friend(DB, a, b) /\ is_blocked(DB, a, b))

\* C6: at most one Friendship row and at most one Block row per unordered
\* pair of players, both orientations counted.
C6_Claim ==
    \A a \in Users : \A b \in Users :
        RowsFor(friendships, a, b) <= 1 /\ RowsFor(blocks, a, b) <= 1

\* C7: for distinct players a and b, friend_remove by a on b and by b on a
\* leave the same tables and are both accepted or both rejected, and so are
\* unblock by a on b and by b on a.
C7_RemovalSymmetric ==
    \A a \in Callers : \A b \in {x \in Callers : x > a} :
        \A e \in EnvsFor(FR(a, b)) :
            LET fa == Run(DB, FR(a, b), e)
                fb == Run(DB, FR(b, a), e)
                ua == Run(DB, UB(a, b), e)
                ub == Run(DB, UB(b, a), e)
            IN  /\ fa.db.F = fb.db.F
                /\ fa.db.B = fb.db.B
                /\ fa.h.reply = "friend_removed" <=> fb.h.reply = "friend_removed"
                /\ fa.h.reply = "not_friends" <=> fb.h.reply = "not_friends"
                /\ ua.db.B = ub.db.B
                /\ ua.db.F = ub.db.F
                /\ ua.h.reply = "unblocked" <=> ub.h.reply = "unblocked"
                /\ ua.h.reply = "not_blocked" <=> ub.h.reply = "not_blocked"

\* a friendship is stored as (a,b) and b, who did not create it, removes it
C7_Witness ==
    \E a \in Callers : \E b \in Callers \ {a} :
        /\ FilterPair(friendships, a, b) = <<Row(a, b)>>
        /\ last.cmd = "friend_add" /\ last.caller = a /\ last.target = b
        /\ \A e \in EnvsFor(FR(b, a)) :
               LET r == Run(DB, FR(b, a), e)
               IN  r.h.reply = "friend_removed" /\ RowsFor(r.db.F, a, b) = 0

\* C8: with the members intent, once privacy(p, v) has returned the stored
\* privacy policy of p is v, and running it again changes nothing.
C8_Claim ==
    (last.cmd = "privacy" /\ intents_members) =>
        /\ player[last.caller].privacy_policy = last.policy
        /\ \A e \in EnvsFor(PR(last.caller, last.policy)) :
               Run(DB, PR(last.caller, last.policy), e).db = DB

\* the donation policy command of player c has just told c "Setting updated"
Updated(l, c) ==
    /\ l.cmd = "donation_policy"
    /\ l.caller = c
    /\ l.sent
    /\ l.reply # "invalid_input"

C9_Step ==
    \A c \in Callers :
        /\ last'.cmd = "privacy" =>
               Stored(player', c).donation_policy
                 = Stored(player, c).donation_policy
        /\ last'.cmd = "donation_policy" =>
               Stored(player', c).privacy_policy
                 = Stored(player, c).privacy_policy
        /\ Stored(player', c).donation_policy
             = IF Updated(last', c) THEN last'.policy
               ELSE Stored(player, c).donation_policy

\* C9: the privacy command leaves the stored donation policy as it is, the
\* donation policy command leaves the stored privacy policy as it is, and
\* the stored donation policy changes only to the value of a successful
\* donation policy command (so it is always that of the most recent one, or
\* the default).
C9_Claim == [][C9_Step]_vars

\* C10: the donation policy command with an undecodable value changes the
\* store by nothing but the get_or_create of the caller's record: the
\* stored donation and privacy policy stay, nothing is saved.
C10_UndecodableNotSaved ==
    \A c \in Callers : \A v \in DonationInputs \ DonationPolicy :
        \A e \in EnvsFor(DP(c, v)) :
            LET r == Run(DB, DP(c, v), e)
            IN  /\ r.db = get_or_create(DB, c)
                /\ Stored(r.db.P, c) = Stored(player, c)

\* an undecodable value has just been given by a player whose stored
\* donation policy is not the default one
C10_Witness ==
    /\ last.cmd = "donation_policy"
    /\ last.policy \notin DonationPolicy
    /\ player[last.caller].exists
    /\ player[last.caller].donation_policy # DefaultPlayer.donation_policy

\* C11: the donation policy command with an undecodable value ends by
\* sending the user "Invalid input!", and no exception leaves the handler.
C11_Claim ==
    (last.cmd = "donation_policy" /\ last.policy \notin DonationPolicy) =>
        /\ last.sent
        /\ last.reply = "invalid_input"
        /\ ~last.raised

\* C12: for every player c and every DonationPolicy member v, once
\* donation_policy(c, v) has returned the stored donation policy of c is v,
\* and running it again with the same v leaves the whole store as it is.
C12_DonationIdempotent ==
    \A c \in Callers : \A v \in DonationPolicy : \A e \in EnvsFor(DP(c, v)) :
        LET r1 == Run(DB, DP(c, v), e)
            r2 == Run(r1.db, DP(c, v), e)
        IN  /\ r1.h.sent /\ ~r1.h.raised
            /\ r1.db.P[c].exists
            /\ r1.db.P[c].donation_policy = v
            /\ r2.db = r1.db
            /\ r2.h.reply = r1.h.reply

\* a player has just set a donation policy other than the default one, and
\* it is the stored one
C12_Witness ==
    /\ last.cmd = "donation_policy"
    /\ last.policy \in DonationPolicy \ {DefaultPlayer.donation_policy}
    /\ last.sent
    /\ player[last.caller].donation_policy = last.policy

\* C20: without the members intent, privacy with the SAME_SERVER policy
\* answers that the members intent is needed and saves nothing, so that the
\* store is the one a further such command leaves.
C20_Claim ==
    (last.cmd = "privacy" /\ last.policy = SAME_SERVER /\ ~intents_members) =>
        /\ last.reply = "need_members_intent"
        /\ \A e \in EnvsFor(PR(last.caller, SAME_SERVER)) :
               Run(DB, PR(last.caller, SAME_SERVER), e).db = DB

\* C19: the removal of the friendship and the insertion of the Block row in
\* a confirmed block are one step: no state shows a block handler that has
\* removed the friendship of its pair while the pair has neither its
\* Friendship row nor a Block row.
C19_Claim ==
    \A h \in BagToSet(handlers) :
        (h.cmd = "block" /\ h.view = "True" /\ h.pc = "create") =>
            \/ is_friend(DB, h.caller, h.target)
            \/ is_blocked(DB, h.caller, h.target)

\* C18: a confirmation that is declined or times out counts as "no": block
\* on a current friend then leaves the Friendship and the Block table as
\* they are, and delete then leaves the whole store as it is (the record of
\* the player is neither changed nor created).
C18_DeclinedIsNo ==
    /\ \A a \in Callers : \A b \in Users : \A e \in EnvsFor(BL(a, b)) :
           (is_friend(DB, a, b) /\ e.view \in {"False", "None"}) =>
               LET r == Run(DB, BL(a, b), e)
               IN  /\ r.db.F = friendships
                   /\ r.db.B = blocks
                   /\ r.h.reply # "now_blocked"
    /\ \A c \in Callers : \A e \in EnvsFor(DEL(c)) :
           e.view \in {"False", "None"} => Run(DB, DEL(c), e).db = DB

\* a player who has a friend has just let the confirmation of delete time
\* out, and a block of that friend would stop at a declined confirmation
C18_Witness ==
    /\ last.cmd = "delete"
    /\ last.view = "None"
    /\ player[last.caller].exists
    /\ \E b \in Callers :
           /\ is_friend(DB, last.caller, b)
           /\ \A e \in EnvsFor(BL(last.caller, b)) :
                  e.view = "False" =>
                      Run(DB, BL(last.caller, b), e).h.view = "False"

\* C17: friend_list and blocked_list of player p show exactly the rows
\* that have p on either side, each with the other party, numbered 1..n in
\* the order in which the rows were created.
C17_Claim ==
    /\ last.cmd = "friend_list" =>
           last.entries = Entries(Listed(friendships, last.caller), last.caller)
    /\ last.cmd = "blocked_list" =>
           last.entries = Entries(Listed(blocks, last.caller), last.caller)

\* C13: export answers "too large" and sends no archive whenever the
\* archive is larger than 25,000,000 bytes; an archive that is sent is at
\* most that large.
C13_Claim ==
    last.cmd = "export" =>
        /\ (last.files # <<>> /\ last.zip_file.size > SizeLimit) =>
               last.reply = "too_large"
        /\ last.reply = "sent_via_dms" => last.zip_file.size <= SizeLimit

\* C14: export by a user without a stored player record answers that there
\* is no data to export, builds and sends no file, and leaves the store as
\* it is: no player record is created.
C14_ExportWithoutPlayer ==
    \A c \in Callers : \A type \in ExportTypes :
        \A e \in EnvsFor(EX(c, type)) :
            ~player[c].exists =>
                LET r == Run(DB, EX(c, type), e)
                IN  /\ r.h.reply = "no_data"
                    /\ r.h.sent
                    /\ r.h.files = <<>>
                    /\ r.db = DB
                    /\ ~r.db.P[c].exists

\* a user without a player record has just asked for an export while
\* another player owns balls
C14_Witness ==
    /\ last.cmd = "export"
    /\ last.reply = "no_data"
    /\ last.sent
    /\ ~player[last.caller].exists
    /\ ballinstances # <<>>

\* the balls of the line items of trade t that are attributed to player p
Attributed(t, p) ==
    {tradeobjects[i].ballinstance :
        i \in {j \in DOMAIN tradeobjects :
                  /\ tradeobjects[j].trade = t.id
                  /\ tradeobjects[j].player = p}}

\* column `col` is the comma-joined rendering of exactly the balls `items`
JoinOf(col, items) ==
    /\ Len(col) = IF items = {} THEN 0 ELSE 2 * Cardinality(items) - 1
    /\ \A i \in DOMAIN col :
           IF i % 2 = 0 THEN col[i] = Comma ELSE col[i] \in items
    /\ \A b \in items : \E i \in DOMAIN col : i % 2 = 1 /\ col[i] = b

\* C15: in every trade row of get_trades_csv the fifth column ("player1
\* received") is the comma-joined rendering of exactly the line items
\* attributed to the trade's player2, and the sixth ("player2 received")
\* that of exactly the line items attributed to its player1.
C15_ColumnsCrossed ==
    \A p \in Callers :
        LET txt == get_trades_csv(DB, p)
            th == Listed(trades, p)
        IN  /\ Len(txt) = 1 + Len(th)
            /\ \A i \in DOMAIN th :
                   /\ txt[i + 1].id = th[i].id
                   /\ JoinOf(txt[i + 1].player1_received,
                             Attributed(th[i], th[i].player2))
                   /\ JoinOf(txt[i + 1].player2_received,
                             Attributed(th[i], th[i].player1))

\* the trades of a player have just been exported, one of them with line
\* items attributed to one party only
C15_Witness ==
    /\ last.cmd = "export"
    /\ last.type = "trades"
    /\ last.reply = "sent_via_dms"
    /\ last.files[1].txt = get_trades_csv(DB, last.caller)
    /\ \E i \in DOMAIN last.files[1].txt :
           LET row == last.files[1].txt[i]
           IN  /\ row.kind = "row"
               /\ row.player1_received # row.player2_received

\* the balls that player p owns
Owned(p) == {i \in DOMAIN ballinstances : ballinstances[i].player = p}

\* C16: get_items_csv(p) is the header line followed by exactly one line
\* for every ball that p owns and none for a ball of another player: 1 +
\* the number of p's balls lines, the header alone when p owns none.
C16_ItemsLines ==
    \A p \in Callers :
        LET txt == get_items_csv(DB, p)
        IN  /\ Len(txt) = 1 + Cardinality(Owned(p))
            /\ txt[1] = ItemsHeader
            /\ \A i \in 2..Len(txt) :
                   /\ txt[i].kind = "row"
                   /\ \E b \in Owned(p) : txt[i].id = ballinstances[b].id
            /\ \A b \in Owned(p) :
                   Cardinality({i \in 2..Len(txt) :
                                  txt[i].id = ballinstances[b].id}) = 1

\* the balls of a player who owns some have just been exported while
\* another player owns balls too
C16_Witness ==
    /\ last.cmd = "export"
    /\ last.type = "balls"
    /\ last.reply = "sent_via_dms"
    /\ Owned(last.caller) # {}
    /\ Cardinality(Owned(last.caller)) < Len(ballinstances)
    /\ Len(last.files[1].txt) = 1 + Cardinality(Owned(last.caller))

\* C21: in privacy and in donation policy the success reply is sent only
\* after the new value has been saved: a handler of a settings command that
\* has told the user the setting was updated has its save behind it, and
\* the store holds the value it announced.
C21_Claim ==
    \A h \in BagToSet(handlers) :
        (/\ h.cmd \in {"privacy", "donation_policy"}
         /\ h.sent
         /\ h.reply \notin {"invalid_input", "need_members_intent"}) =>
            /\ h.pc # "save"
            /\ player[h.caller].donation_policy = h.obj.donation_policy

====
